---- MODULE Spec2Model ----
(***************************************************************************)
(* A model of wfcast.weather: the session location codec, the forecast     *)
(* normalizer, the history recorder and the views that sequence them.      *)
(*                                                                         *)
(* Representation.                                                         *)
(*   - A Python str is a sequence of one-character strings.                *)
(*   - An optional value (x | None, or a mapping key that may be absent)   *)
(*     is a sequence of length <= 1: <<>> is None, <<x>> is x.             *)
(*   - A float coordinate is an integer number of Unit-ths of a degree.    *)
(***************************************************************************)
EXTENDS Integers, Sequences, FiniteSets, TLC

VARIABLES
    session,    \* request.session: [location, weather_data]
    cities,     \* table City: sequence of rows, the index is the primary key
    history,    \* table SearchHistory: sequence of [user, city]
    cache,      \* django cache: the set of live <<key, value>> entries
    last,       \* the last request served and its response
    fn,         \* the pure function under check: [op, in, out]
    procs       \* concurrent record() calls: per process its position and locals

vars == <<session, cities, history, cache, last, fn, procs>>

None == <<>>
Some(x) == <<x>>
IsNone(o) == o = <<>>
Get(o) == o[1]

----------------------------------------------------------------------------
(* Python str operations                                                   *)

WS == " "

RECURSIVE LStrip(_)
LStrip(s) == IF s # <<>> /\ Head(s) = WS THEN LStrip(Tail(s)) ELSE s

RECURSIVE RStrip(_)
RStrip(s) ==
    IF s # <<>> /\ s[Len(s)] = WS THEN RStrip(SubSeq(s, 1, Len(s) - 1)) ELSE s

\* str.strip()
Strip(s) == RStrip(LStrip(s))

\* str.count(c)
Count(s, c) == Cardinality({i \in 1..Len(s) : s[i] = c})

\* str.split(sep): the pieces between the separators, always at least one
RECURSIVE Split(_, _)
Split(s, sep) ==
    IF \E i \in 1..Len(s) : s[i] = sep
    THEN LET i == CHOOSE k \in 1..Len(s) :
                      s[k] = sep /\ \A j \in 1..(k - 1) : s[j] # sep
         IN  <<SubSeq(s, 1, i - 1)>> \o Split(SubSeq(s, i + 1, Len(s)), sep)
    ELSE <<s>>

\* str.replace(a, b) for one-character a and b
Replace(s, a, b) == [i \in 1..Len(s) |-> IF s[i] = a THEN b ELSE s[i]]

LowerChar(c) ==
    CASE c = "P" -> "p"
      [] c = "A" -> "a"
      [] c = "L" -> "l"
      [] c = "O" -> "o"
      [] OTHER -> c

\* str.lower()
Lower(s) == [i \in 1..Len(s) |-> LowerChar(s[i])]

\* sep.join(parts)
RECURSIVE Join(_, _)
Join(parts, sep) ==
    IF parts = <<>> THEN <<>>
    ELSE IF Len(parts) = 1 THEN parts[1]
    ELSE parts[1] \o sep \o Join(Tail(parts), sep)

----------------------------------------------------------------------------
(* float <-> str.  A coordinate is an integer count of 1/Unit degree; the  *)
(* texts are decimal numerals with at most FracDigits fractional digits.   *)

FracDigits == 6

RECURSIVE Pow10(_)
Pow10(k) == IF k = 0 THEN 1 ELSE 10 * Pow10(k - 1)

Unit == Pow10(FracDigits)

Digits == {"0", "1", "2", "3", "4", "5", "6", "7", "8", "9"}

DigitVal(c) ==
    CASE c = "0" -> 0 [] c = "1" -> 1 [] c = "2" -> 2 [] c = "3" -> 3
      [] c = "4" -> 4 [] c = "5" -> 5 [] c = "6" -> 6 [] c = "7" -> 7
      [] c = "8" -> 8 [] c = "9" -> 9

DigitChar(d) ==
    CASE d = 0 -> "0" [] d = 1 -> "1" [] d = 2 -> "2" [] d = 3 -> "3"
      [] d = 4 -> "4" [] d = 5 -> "5" [] d = 6 -> "6" [] d = 7 -> "7"
      [] d = 8 -> "8" [] d = 9 -> "9"

AllDigits(s) == \A i \in 1..Len(s) : s[i] \in Digits

\* the value of a run of digits read as an integer
RECURSIVE DigitsVal(_)
DigitsVal(s) ==
    IF s = <<>> THEN 0
    ELSE 10 * DigitsVal(SubSeq(s, 1, Len(s) - 1)) + DigitVal(s[Len(s)])

\* the decimal digits of a natural number
RECURSIVE NatDigits(_)
NatDigits(n) ==
    IF n < 10 THEN <<DigitChar(n)>>
    ELSE NatDigits(n \div 10) \o <<DigitChar(n % 10)>>

\* the first FracDigits fractional digits, zero-padded on the right
FracVal(s) ==
    LET k == IF Len(s) < FracDigits THEN Len(s) ELSE FracDigits
    IN  DigitsVal(SubSeq(s, 1, k)) * Pow10(FracDigits - k)

\* the value of an unsigned numeral, digits optionally "." and digits, in
\* Unit-ths; None when the text is no such numeral
ParseDecimal(body) ==
    LET ps   == Split(body, ".")
        ip   == ps[1]
        fp   == IF Len(ps) = 2 THEN ps[2] ELSE <<>>
        ok   == /\ Len(ps) <= 2
                /\ AllDigits(ip) /\ AllDigits(fp)
                /\ Len(ip) + Len(fp) > 0
    IN  IF ok THEN Some(DigitsVal(ip) * Unit + FracVal(fp)) ELSE None

\* the exponent after "e": an optional sign and at least one digit
ParseExponent(text) ==
    LET neg  == text # <<>> /\ Head(text) = "-"
        body == IF text # <<>> /\ Head(text) \in {"-", "+"} THEN Tail(text) ELSE text
    IN  IF body # <<>> /\ AllDigits(body)
        THEN Some(IF neg THEN 0 - DigitsVal(body) ELSE DigitsVal(body))
        ELSE None

\* m * 10^e in Unit-ths, to the nearest Unit-th
Scale(m, e) ==
    IF e >= 0 THEN m * Pow10(e)
    ELSE (m + Pow10(0 - e) \div 2) \div Pow10(0 - e)

\* float(text): None stands for ValueError.  Surrounding blanks and a sign
\* are accepted; the numeral is digits, optionally "." and digits,
\* optionally "e" and an exponent.
ParseFloat(text) ==
    LET t    == Strip(text)
        neg  == t # <<>> /\ Head(t) = "-"
        body == IF t # <<>> /\ Head(t) \in {"-", "+"} THEN Tail(t) ELSE t
        es   == Split(Replace(body, "E", "e"), "e")
        mant == ParseDecimal(es[1])
        ex   == IF Len(es) = 2 THEN ParseExponent(es[2]) ELSE Some(0)
        ok   == Len(es) <= 2 /\ ~IsNone(mant) /\ ~IsNone(ex)
        mag  == Scale(Get(mant), Get(ex))
    IN  IF ok THEN Some(IF neg THEN 0 - mag ELSE mag) ELSE None

\* a zero-padded run of exactly k digits
RECURSIVE PadDigits(_, _)
PadDigits(n, k) ==
    IF k = 0 THEN <<>> ELSE PadDigits(n \div 10, k - 1) \o <<DigitChar(n % 10)>>

RECURSIVE TrimZeros(_)
TrimZeros(s) ==
    IF Len(s) > 1 /\ s[Len(s)] = "0" THEN TrimZeros(SubSeq(s, 1, Len(s) - 1))
    ELSE s

Abs(n) == IF n < 0 THEN 0 - n ELSE n

RECURSIVE TrimAllZeros(_)
TrimAllZeros(s) ==
    IF s # <<>> /\ s[Len(s)] = "0" THEN TrimAllZeros(SubSeq(s, 1, Len(s) - 1))
    ELSE s

\* repr of a float below 0.0001 in magnitude: d[.ddd]e-XX
StrFloatExp(a) ==
    LET ds   == NatDigits(a)
        rest == TrimAllZeros(Tail(ds))
    IN  <<Head(ds)>> \o (IF rest # <<>> THEN <<".">> \o rest ELSE <<>>)
            \o <<"e", "-">> \o PadDigits(FracDigits - Len(ds) + 1, 2)

\* a numeral cut after four fractional digits
StrFloatCut4(n) ==
    (IF n < 0 THEN <<"-">> ELSE <<>>)
        \o NatDigits(Abs(n) \div Unit) \o <<".">>
        \o PadDigits((Abs(n) % Unit) \div Pow10(FracDigits - 4), 4)

\* str(x) of a float: the shortest numeral that reads back as x, with a
\* fractional part, or in exponent notation when 0 < |x| < 0.0001
StrFloat(n) ==
    (IF n < 0 THEN <<"-">> ELSE <<>>)
        \o (IF 0 < Abs(n) /\ Abs(n) < Pow10(FracDigits - 4)
            THEN StrFloatExp(Abs(n))
            ELSE NatDigits(Abs(n) \div Unit) \o <<".">>
                     \o TrimZeros(PadDigits(Abs(n) % Unit, FracDigits)))

\* n rounded to a multiple of m, a tie going to the even multiple
RoundTo(n, m) ==
    LET a == Abs(n)
        q == a \div m
        r == a % m
        up == \/ 2 * r > m
              \/ (2 * r = m /\ q % 2 = 1)
        v == (IF up THEN q + 1 ELSE q) * m
    IN  IF n < 0 THEN 0 - v ELSE v

\* round(x, 5)
Round5(n) == RoundTo(n, Pow10(FracDigits - 5))

\* f"{x:.4f}"
Fmt4(n) ==
    LET r == RoundTo(n, Pow10(FracDigits - 4)) \div Pow10(FracDigits - 4)
    IN  (IF n < 0 THEN <<"-">> ELSE <<>>)
            \o NatDigits(Abs(r) \div 10000) \o <<".">> \o PadDigits(Abs(r) % 10000, 4)

----------------------------------------------------------------------------
(* Geocoding client                                                        *)

Location(lat, lon, display, name, admin1, country) ==
    [lat |-> lat, lon |-> lon, display_name |-> display,
     name_component |-> name, admin1_component |-> admin1,
     country_component |-> country]

\* [part for part in parts if part]
RECURSIVE NonEmpty(_)
NonEmpty(parts) ==
    IF parts = <<>> THEN <<>>
    ELSE (IF Head(parts) # <<>> THEN <<Head(parts)>> ELSE <<>>)
             \o NonEmpty(Tail(parts))

\* geocode_exact_city_location, given what _call_geocoding_api answers:
\* None (timeout, transport error) or Some(list of raw items)
geocode_exact_city_location(api) ==
    IF IsNone(api) \/ Get(api) = <<>> THEN None
    ELSE LET item    == Get(api)[1]
             city    == Strip(item.name)
             admin1  == Strip(item.admin1)
             country == Strip(item.country_code)
             display == Join(NonEmpty(<<city, admin1, country>>), <<",", " ">>)
         IN  IF IsNone(item.latitude) \/ IsNone(item.longitude) THEN None
             ELSE Some(Location(Get(item.latitude), Get(item.longitude),
                                display, city, admin1, country))

----------------------------------------------------------------------------
(* Location session codec: decode                                          *)

DefaultDisplayName ==
    <<"U", "n", "k", "n", "o", "w", "n", " ", "L", "o", "c", "a", "t", "i", "o", "n">>
DefaultCountry == <<"X", "X">>

\* values request.session["location"] can hold
NoSession == [kind |-> "none", raw |-> <<>>, display |-> None, lat |-> None,
              lon |-> None, name |-> None, admin1 |-> None, country |-> None]
StrSession(s) == [NoSession EXCEPT !.kind = "str", !.raw = s]
DictSession(display, lat, lon, name, admin1, country) ==
    [kind |-> "dict", raw |-> <<>>, display |-> display, lat |-> lat,
     lon |-> lon, name |-> name, admin1 |-> admin1, country |-> country]
EmptyDict == DictSession(None, None, None, None, None, None)

\* a test that lets every str and mapping through
TruthyUnlessNone(sd) == sd.kind # "none"

\* bool(session_data)
Truthy(sd) ==
    CASE sd.kind = "none" -> FALSE
      [] sd.kind = "dict" -> sd # EmptyDict
      [] sd.kind = "str"  -> sd.raw # <<>>
      [] OTHER            -> TRUE

\* dict.get(key, default) for a str-valued key
GetOr(o, default) == IF IsNone(o) THEN default ELSE Get(o)

\* the chained component assignments of lines 316-324
DerivedCountry(name_parts, country) ==
    IF Len(name_parts) > 2 THEN name_parts[Len(name_parts)]
    ELSE IF Len(name_parts) = 2 THEN name_parts[2]
    ELSE IF Len(name_parts) = 1 /\ country = DefaultCountry THEN DefaultCountry
    ELSE country

\* the dict branch once lat and lon are floats (lines 301-324)
DictComponents(sd, lat, lon) ==
    LET display_name == GetOr(sd.display,
                              IF lat # 0 /\ lon # 0
                              THEN Fmt4(lat) \o <<",">> \o Fmt4(lon)
                              ELSE DefaultDisplayName)
        name    == Strip(GetOr(sd.name, <<>>))
        admin1  == Strip(GetOr(sd.admin1, <<>>))
        country == Strip(GetOr(sd.country, <<>>))
        name_parts == [i \in 1..Len(Split(display_name, ",")) |->
                          Strip(Split(display_name, ",")[i])]
    IN  IF name # <<>> /\ country # <<>>
        THEN Location(lat, lon, display_name, name, admin1, country)
        ELSE Location(lat, lon, display_name, name_parts[1],
                      IF Len(name_parts) > 2 THEN name_parts[2] ELSE admin1,
                      DerivedCountry(name_parts, country))

\* what decode returns, and the query it handed to the geocoding client if
\* it called it
Decoded(loc, query) == [loc |-> loc, geo |-> query]

DecodeDict(sd, api) ==
    IF ~IsNone(sd.lat) /\ ~IsNone(sd.lon)
    THEN LET lat == ParseFloat(Get(sd.lat))
             lon == ParseFloat(Get(sd.lon))
         IN  IF IsNone(lat) \/ IsNone(lon) THEN Decoded(None, None)
             ELSE Decoded(Some(DictComponents(sd, Get(lat), Get(lon))), None)
    ELSE IF ~IsNone(sd.display) /\ Get(sd.display) # <<>>
         THEN Decoded(geocode_exact_city_location(api), sd.display)
         ELSE Decoded(None, None)

\* a string branch that takes every string for a place name
DecodeStrByName(s, api) == Decoded(geocode_exact_city_location(api), Some(s))

\* a string branch that gives up when the text is no "lat,lon" pair
DecodeStrNoFallback(s, api) ==
    LET one   == Count(s, ",") = 1
        parts == Split(s, ",")
        lat   == IF one THEN ParseFloat(Strip(parts[1])) ELSE None
        lon   == IF one /\ ~IsNone(lat) THEN ParseFloat(Strip(parts[2])) ELSE None
    IN  IF IsNone(lat) \/ IsNone(lon) THEN Decoded(None, None)
        ELSE Decoded(Some(Location(Get(lat), Get(lon), s, s, <<>>, DefaultCountry)),
                     None)

DecodeStr(s, api) ==
    LET one   == Count(s, ",") = 1
        parts == Split(s, ",")
        lat   == IF one THEN ParseFloat(Strip(parts[1])) ELSE None
        lon   == IF one /\ ~IsNone(lat) THEN ParseFloat(Strip(parts[2])) ELSE None
    IN  IF IsNone(lat) \/ IsNone(lon)
        THEN Decoded(geocode_exact_city_location(api), Some(s))
        ELSE Decoded(Some(Location(Get(lat), Get(lon), s, s, <<>>, DefaultCountry)),
                     None)

\* parse_session_location_data
parse_session_location_data(sd, api) ==
    IF ~Truthy(sd) THEN Decoded(None, None)
    ELSE IF sd.kind = "dict" THEN DecodeDict(sd, api)
    ELSE IF sd.kind = "str" THEN DecodeStr(sd.raw, api)
    ELSE Decoded(None, None)

----------------------------------------------------------------------------
(* Sample texts                                                            *)

Ur   == <<"U", "r">>
Il   == <<"I", "l">>
IT   == <<"I", "T">>
Oslo == <<"O", "s", "l", "o">>

DisplayTexts ==
    { Ur,
      <<" ", "U", "r", " ">>,
      Ur \o <<",", " ">> \o IT,
      Ur \o <<",", " ">> \o Il \o <<",", " ">> \o IT,
      Ur \o <<",">> \o Il \o <<",">> \o Oslo \o <<",">> \o IT,
      <<",", " ">> \o IT,
      <<>> }

LatTexts == { <<"1", ".", "5">>, <<"1", ".", "0", "0", "0", "0", "1", "4">>,
              <<"0", ".", "0">>, <<"-", "2", ".", "2", "5">>, <<"x">> }
LonTexts == { <<"2", ".", "2", "5">>, <<"0">>, <<"2", ",", "5">> }

NameTexts    == { <<>>, Ur \o <<" ">>, Oslo }
Admin1Texts  == { Il }
CountryTexts == { <<>>, IT, DefaultCountry }

Opt(S) == {None} \cup {Some(x) : x \in S}

DictSessions ==
    { DictSession(d, la, lo, n, a, c) :
        d \in Opt(DisplayTexts), la \in Opt(LatTexts), lo \in Opt(LonTexts),
        n \in Opt(NameTexts), a \in Opt(Admin1Texts), c \in Opt(CountryTexts) }

StrSessions ==
    { StrSession(s) :
        s \in { <<>>, Ur, Ur \o <<",", " ">> \o IT,
                <<"1", ".", "5", ",", "2", ".", "2", "5">>,
                <<" ", "1", ".", "5", " ", ",", " ", "2", ".", "2", "5">>,
                <<"1", ".", "5", ",", "x">>, <<"x", ",", "2">>,
                <<"1", ",", "2", ",", "3">> } }

OtherSession == [NoSession EXCEPT !.kind = "other"]

SessionInputs == {NoSession, OtherSession} \cup DictSessions \cup StrSessions

\* answers of the upstream geocoding API to a count=1 query
GeoItem(name, admin1, cc, lat, lon) ==
    [name |-> name, admin1 |-> admin1, country_code |-> cc,
     latitude |-> lat, longitude |-> lon]

GeoApiAnswers ==
    { None, Some(<<>>),
      Some(<<GeoItem(Oslo, <<>>, <<"N", "O">>, Some(59913900), Some(10752200))>>),
      Some(<<GeoItem(Ur, Il, IT, Some(1500000), None)>>) }

----------------------------------------------------------------------------
(* State shared by the specifications                                      *)

IdleSession == [location |-> NoSession, weather_data |-> None]
IdleLast    == [op |-> "none"]

Idle(vs) ==
    /\ ("session" \in vs => session = IdleSession)
    /\ ("cities" \in vs => cities = <<>>)
    /\ ("history" \in vs => history = <<>>)
    /\ ("cache" \in vs => cache = {})
    /\ ("last" \in vs => last = IdleLast)
    /\ ("fn" \in vs => fn = [op |-> "none"])
    /\ ("procs" \in vs => procs = <<>>)

----------------------------------------------------------------------------
(* decode as a function of the session value and the geocoder's answer      *)

InitDecode ==
    /\ Idle({"session", "cities", "history", "cache", "last", "procs"})
    /\ \E sd \in SessionInputs, api \in GeoApiAnswers :
           fn = [op |-> "decode", sd |-> sd, api |-> api,
                 out |-> Decoded(None, None), done |-> FALSE]

RunDecode ==
    /\ fn.op = "decode" /\ ~fn.done
    /\ fn' = [fn EXCEPT !.out = parse_session_location_data(fn.sd, fn.api),
                        !.done = TRUE]
    /\ UNCHANGED <<session, cities, history, cache, last, procs>>

SpecDecode == InitDecode /\ [][RunDecode]_vars

\* the decode ran on a mapping whose lat and lon are both numeric texts
DecodedNumericDict ==
    /\ fn.op = "decode" /\ fn.done /\ fn.sd.kind = "dict"
    /\ ~IsNone(fn.sd.lat) /\ ~IsNone(fn.sd.lon)
    /\ ~IsNone(ParseFloat(Get(fn.sd.lat))) /\ ~IsNone(ParseFloat(Get(fn.sd.lon)))

StrippedParts(text) ==
    [i \in 1..Len(Split(text, ",")) |-> Strip(Split(text, ",")[i])]

\* C1: for a session mapping with numeric lat and lon, decode returns a
\* Location that carries the stored name/admin1/country when name and
\* country are stored, and otherwise the components derived from the
\* display string split on commas: one part leaves the country at "XX"
\* unless a country is already known, two parts make the second the country,
\* three or more make the second admin1 and the last the country.
ClaimC1 ==
    DecodedNumericDict =>
        /\ ~IsNone(fn.out.loc)
        /\ LET loc     == Get(fn.out.loc)
               name    == Strip(GetOr(fn.sd.name, <<>>))
               admin1  == Strip(GetOr(fn.sd.admin1, <<>>))
               country == Strip(GetOr(fn.sd.country, <<>>))
               parts   == StrippedParts(loc.display_name)
           IN  IF name # <<>> /\ country # <<>>
               THEN /\ loc.name_component = name
                    /\ loc.admin1_component = admin1
                    /\ loc.country_component = country
               ELSE /\ Len(parts) = 1 =>
                          loc.country_component =
                              (IF country # <<>> THEN country ELSE DefaultCountry)
                    /\ Len(parts) = 2 => loc.country_component = parts[2]
                    /\ Len(parts) >= 3 =>
                          /\ loc.admin1_component = parts[2]
                          /\ loc.country_component = parts[Len(parts)]

\* the text is two numerals separated by its only comma
ParseablePair(s) ==
    /\ Count(s, ",") = 1
    /\ ~IsNone(ParseFloat(Split(s, ",")[1]))
    /\ ~IsNone(ParseFloat(Split(s, ",")[2]))

\* the inputs for which decode is said to delegate
DelegatesAsClaimed(sd) ==
    \/ sd.kind = "dict" /\ (IsNone(sd.lat) \/ IsNone(sd.lon)) /\ ~IsNone(sd.display)
    \/ sd.kind = "str" /\ ~ParseablePair(sd.raw)

\* the same, the display string and the raw string being non-empty
DelegatesNonEmpty(sd) ==
    \/ /\ sd.kind = "dict" /\ (IsNone(sd.lat) \/ IsNone(sd.lon))
       /\ ~IsNone(sd.display) /\ Get(sd.display) # <<>>
    \/ sd.kind = "str" /\ sd.raw # <<>> /\ ~ParseablePair(sd.raw)

\* the text decode hands to the geocoding client
DelegatedText(sd) == IF sd.kind = "dict" THEN sd.display ELSE Some(sd.raw)

WitnessC13NotFound ==
    /\ fn.op = "decode" /\ fn.done
    /\ fn.sd.kind = "dict" /\ ~IsNone(fn.sd.lat) /\ IsNone(fn.sd.lon)
    /\ ~IsNone(fn.out.geo) /\ fn.api = Some(<<>>)
    /\ IsNone(fn.out.loc)

\* C14: decode of a raw string with exactly one comma whose two parts are
\* numerals returns those lat and lon, the string itself as name_component
\* (and display name), admin1 empty and country "XX", and does not call
\* the geocoding client.
TheoremC14 ==
    (fn.op = "decode" /\ fn.done /\ fn.sd.kind = "str" /\ ParseablePair(fn.sd.raw)) =>
        /\ IsNone(fn.out.geo)
        /\ ~IsNone(fn.out.loc)
        /\ Some(Get(fn.out.loc).lat) = ParseFloat(Split(fn.sd.raw, ",")[1])
        /\ Some(Get(fn.out.loc).lon) = ParseFloat(Split(fn.sd.raw, ",")[2])
        /\ Get(fn.out.loc).name_component = fn.sd.raw
        /\ Get(fn.out.loc).admin1_component = <<>>
        /\ Get(fn.out.loc).country_component = DefaultCountry

\* " 1.5 , 2.25" decoded to lat 1.5, lon 2.25 under its own text as name
WitnessC14 ==
    /\ fn.op = "decode" /\ fn.done
    /\ fn.sd = StrSession(<<" ", "1", ".", "5", " ", ",", " ", "2", ".", "2", "5">>)
    /\ ~IsNone(fn.out.loc)
    /\ Get(fn.out.loc).lat = ParseFloat(<<"1", ".", "5">>)[1]
    /\ Get(fn.out.loc).lon = ParseFloat(<<"2", ".", "2", "5">>)[1]
    /\ Get(fn.out.loc).name_component = fn.sd.raw

\* C16: decode of an empty mapping, an empty string or a null input returns
\* not-found and does not call the geocoding client.
TheoremC16 ==
    (fn.op = "decode" /\ fn.done /\ fn.sd \in {EmptyDict, StrSession(<<>>), NoSession}) =>
        /\ IsNone(fn.out.loc)
        /\ IsNone(fn.out.geo)

\* the empty string was decoded while the client had a Location to offer
WitnessC16 ==
    /\ fn.op = "decode" /\ fn.done
    /\ fn.sd = StrSession(<<>>)
    /\ ~IsNone(geocode_exact_city_location(fn.api))
    /\ IsNone(fn.out.loc)

----------------------------------------------------------------------------
(* datetime / date: fromisoformat and isoformat                            *)
(* Texts are in the extended format the provider sends: YYYY-MM-DD,         *)
(* optionally one separator character and HH, HH:MM or HH:MM:SS.            *)

DateTimeVal(y, mo, d, h, mi, sec) ==
    [y |-> y, mo |-> mo, d |-> d, h |-> h, mi |-> mi, s |-> sec]

NoDateTime == DateTimeVal(0, 0, 0, 0, 0, 0)

LeapYear(y) == (y % 4 = 0 /\ y % 100 # 0) \/ y % 400 = 0

DaysIn(y, mo) ==
    IF mo = 2 THEN (IF LeapYear(y) THEN 29 ELSE 28)
    ELSE IF mo \in {4, 6, 9, 11} THEN 30 ELSE 31

\* the date of a 10-character YYYY-MM-DD text, at midnight
ParseDatePart(text) ==
    IF /\ Len(text) = 10 /\ text[5] = "-" /\ text[8] = "-"
       /\ AllDigits(SubSeq(text, 1, 4)) /\ AllDigits(SubSeq(text, 6, 7))
       /\ AllDigits(SubSeq(text, 9, 10))
    THEN LET y  == DigitsVal(SubSeq(text, 1, 4))
             mo == DigitsVal(SubSeq(text, 6, 7))
             d  == DigitsVal(SubSeq(text, 9, 10))
         IN  IF y >= 1 /\ mo \in 1..12 /\ d >= 1 /\ d <= DaysIn(y, mo)
             THEN Some(DateTimeVal(y, mo, d, 0, 0, 0)) ELSE None
    ELSE None

\* HH, HH:MM or HH:MM:SS as <<h, mi, s>>
ParseTimePart(text) ==
    LET n == Len(text)
        shape == /\ n \in {2, 5, 8}
                 /\ AllDigits(SubSeq(text, 1, 2))
                 /\ (n >= 5 => text[3] = ":" /\ AllDigits(SubSeq(text, 4, 5)))
                 /\ (n = 8 => text[6] = ":" /\ AllDigits(SubSeq(text, 7, 8)))
    IN  IF ~shape THEN None
        ELSE LET h   == DigitsVal(SubSeq(text, 1, 2))
                 mi  == IF n >= 5 THEN DigitsVal(SubSeq(text, 4, 5)) ELSE 0
                 sec == IF n = 8 THEN DigitsVal(SubSeq(text, 7, 8)) ELSE 0
             IN  IF h <= 23 /\ mi <= 59 /\ sec <= 59 THEN Some(<<h, mi, sec>>)
                 ELSE None

\* datetime.fromisoformat(text); None stands for ValueError
DateTimeFromIso(text) ==
    IF Len(text) <= 10 THEN ParseDatePart(text)
    ELSE LET dp == ParseDatePart(SubSeq(text, 1, 10))
             tp == ParseTimePart(SubSeq(text, 12, Len(text)))
         IN  IF IsNone(dp) \/ IsNone(tp) THEN None
             ELSE Some([Get(dp) EXCEPT !.h = Get(tp)[1], !.mi = Get(tp)[2],
                                       !.s = Get(tp)[3]])

\* date.fromisoformat(text); None stands for ValueError
DateFromIso(text) == ParseDatePart(text)

\* date.isoformat()
DateIsoformat(v) ==
    PadDigits(v.y, 4) \o <<"-">> \o PadDigits(v.mo, 2) \o <<"-">> \o PadDigits(v.d, 2)

\* a text of the datetime that leaves the time of day out
IsoformatWithoutTime(v) ==
    PadDigits(v.y, 4) \o <<"-">> \o PadDigits(v.mo, 2) \o <<"-">> \o PadDigits(v.d, 2)

\* datetime.isoformat()
DateTimeIsoformat(v) ==
    DateIsoformat(v) \o <<"T">> \o PadDigits(v.h, 2) \o <<":">>
        \o PadDigits(v.mi, 2) \o <<":">> \o PadDigits(v.s, 2)

\* datetime.date()
DateOf(v) == [v EXCEPT !.h = 0, !.mi = 0, !.s = 0]

----------------------------------------------------------------------------
(* Forecast normalizer                                                     *)

\* a value of a provider array key: the key absent, JSON null, or a list
AbsentArr   == [kind |-> "absent", items |-> <<>>]
NullArr     == [kind |-> "null", items |-> <<>>]
ListArr(xs) == [kind |-> "list", items |-> xs]

\* section.get(key, [])
ArrGet(a) == IF a.kind = "absent" THEN ListArr(<<>>) ELSE a

Min2(a, b) == IF a < b THEN a ELSE b

\* min(len(a) for a in arrays)
RECURSIVE MinLen(_)
MinLen(arrays) ==
    IF Len(arrays) = 1 THEN Len(arrays[1].items)
    ELSE Min2(Len(arrays[1].items), MinLen(Tail(arrays)))

HourlyRecord(time, temperature, code, precip, wind_s, wind_d) ==
    [time |-> time, temperature |-> temperature, weather_code |-> code,
     precipitation_probability |-> precip, windspeed |-> wind_s,
     winddirection |-> wind_d]

DailyRecord(day, temp_max, temp_min, code) ==
    [day |-> day, temp_max |-> temp_max, temp_min |-> temp_min,
     weather_code |-> code]

\* the hourly loop leaving at the first timestamp that does not parse
\* (break where the code has continue)
RECURSIVE HourlyLoopBreak(_, _, _)
HourlyLoopBreak(h, i, num_hours) ==
    IF i > num_hours THEN <<>>
    ELSE LET t == h.time.items[i]
             time_obj == IF IsNone(t) THEN None ELSE DateTimeFromIso(Get(t))
         IN  IF IsNone(time_obj) THEN <<>>
             ELSE <<HourlyRecord(DateTimeIsoformat(Get(time_obj)),
                                 h.temperature_2m.items[i],
                                 h.weather_code.items[i],
                                 h.precipitation_probability.items[i],
                                 h.windspeed_10m.items[i],
                                 h.winddirection_10m.items[i])>>
                      \o HourlyLoopBreak(h, i + 1, num_hours)

\* an element of a time array is an optional text (None is JSON null, on
\* which fromisoformat raises TypeError); the loop of lines 434-450
RECURSIVE HourlyLoop(_, _, _)
HourlyLoop(h, i, num_hours) ==
    IF i > num_hours THEN <<>>
    ELSE LET t == h.time.items[i]
             time_obj == IF IsNone(t) THEN None ELSE DateTimeFromIso(Get(t))
         IN  (IF IsNone(time_obj) THEN <<>>
              ELSE <<HourlyRecord(DateTimeIsoformat(Get(time_obj)),
                                  h.temperature_2m.items[i],
                                  h.weather_code.items[i],
                                  h.precipitation_probability.items[i],
                                  h.windspeed_10m.items[i],
                                  h.winddirection_10m.items[i])>>)
                 \o HourlyLoop(h, i + 1, num_hours)

\* the loop of lines 467-482
RECURSIVE DailyLoop(_, _, _)
DailyLoop(d, i, num_days) ==
    IF i > num_days THEN <<>>
    ELSE LET t == d.time.items[i]
             date_obj == IF IsNone(t) THEN None ELSE DateFromIso(Get(t))
         IN  (IF IsNone(date_obj) THEN <<>>
              ELSE <<DailyRecord(DateIsoformat(Get(date_obj)),
                                 d.temperature_2m_max.items[i],
                                 d.temperature_2m_min.items[i],
                                 d.weather_code.items[i])>>)
                 \o DailyLoop(d, i + 1, num_days)

HourlyArrays(h) ==
    <<ArrGet(h.time), ArrGet(h.temperature_2m), ArrGet(h.weather_code),
      ArrGet(h.precipitation_probability), ArrGet(h.windspeed_10m),
      ArrGet(h.winddirection_10m)>>

DailyArrays(d) ==
    <<ArrGet(d.time), ArrGet(d.temperature_2m_max), ArrGet(d.temperature_2m_min),
      ArrGet(d.weather_code)>>

HourlySection(time, temps, codes, precip, wind_s, wind_d) ==
    [time |-> time, temperature_2m |-> temps, weather_code |-> codes,
     precipitation_probability |-> precip, windspeed_10m |-> wind_s,
     winddirection_10m |-> wind_d]

DailySection(time, temp_max, temp_min, codes) ==
    [time |-> time, temperature_2m_max |-> temp_max,
     temperature_2m_min |-> temp_min, weather_code |-> codes]

EmptyHourly == HourlySection(AbsentArr, AbsentArr, AbsentArr, AbsentArr,
                             AbsentArr, AbsentArr)
EmptyDaily  == DailySection(AbsentArr, AbsentArr, AbsentArr, AbsentArr)

\* the raw payload: None, or a mapping whose keys may each be absent
RawPayload(hourly, daily, meta) ==
    [kind |-> "dict", hourly |-> hourly, daily |-> daily, meta |-> meta]
NoPayload == [kind |-> "none", hourly |-> None, daily |-> None, meta |-> None]
EmptyPayload == RawPayload(None, None, None)

Bundle(hourly, daily, meta) ==
    [hourly_processed |-> hourly, daily_processed |-> daily, meta |-> meta]

Normalized(status, bundle) == [status |-> status, bundle |-> bundle]

\* len() of a JSON null raises TypeError, which nothing catches
HasNull(arrays) == \E i \in 1..Len(arrays) : arrays[i].kind = "null"

\* process_raw_weather_data: status "none" is the None result, "raise" an
\* exception that leaves the function
process_raw_weather_data(raw) ==
    IF raw.kind = "none" \/ raw = EmptyPayload
    THEN Normalized("none", Bundle(<<>>, <<>>, None))
    ELSE LET hs == IF ~IsNone(raw.hourly) /\ Get(raw.hourly) # EmptyHourly
                   THEN HourlyArrays(Get(raw.hourly)) ELSE <<>>
             ds == IF ~IsNone(raw.daily) /\ Get(raw.daily) # EmptyDaily
                   THEN DailyArrays(Get(raw.daily)) ELSE <<>>
         IN  IF HasNull(hs) \/ HasNull(ds)
             THEN Normalized("raise", Bundle(<<>>, <<>>, None))
             ELSE Normalized("ok",
                    Bundle(IF hs = <<>> THEN <<>>
                           ELSE HourlyLoop(HourlySection(hs[1], hs[2], hs[3],
                                                         hs[4], hs[5], hs[6]),
                                           1, MinLen(hs)),
                           IF ds = <<>> THEN <<>>
                           ELSE DailyLoop(DailySection(ds[1], ds[2], ds[3], ds[4]),
                                          1, MinLen(ds)),
                           raw.meta))

----------------------------------------------------------------------------
(* rehydrate: parse_iso_strings_in_forecast_data                           *)

\* the value a record holds under datetime_key: a str, None (or the key
\* absent), a number, a datetime or a date
StrVal(text)   == [t |-> "str", s |-> text, v |-> NoDateTime]
NoneVal        == [t |-> "none", s |-> <<>>, v |-> NoDateTime]
NumVal         == [t |-> "num", s |-> <<>>, v |-> NoDateTime]
DateTimeObj(v) == [t |-> "datetime", s |-> <<>>, v |-> v]
DateObj(v)     == [t |-> "date", s |-> <<>>, v |-> v]

\* an entry of the list: a mapping (val is what it holds under datetime_key,
\* rest stands for its other keys), or None, a number, a str
DictEntry(val, rest) == [kind |-> "dict", val |-> val, rest |-> rest]
OtherEntry(kind, rest) == [kind |-> kind, val |-> NoneVal, rest |-> rest]

\* lines 581-606: the new value under datetime_key
RehydrateValue(val, is_date_only) ==
    IF val.t = "str"
    THEN LET dt_obj == DateTimeFromIso(val.s)
         IN  IF IsNone(dt_obj) THEN NoneVal
             ELSE IF is_date_only THEN DateObj(DateOf(Get(dt_obj)))
             ELSE DateTimeObj(Get(dt_obj))
    ELSE IF is_date_only /\ val.t \in {"date", "datetime"} THEN val
    ELSE IF ~is_date_only /\ val.t = "datetime" THEN val
    ELSE NoneVal

\* the loop dropping what it cannot convert, as normalize does
RECURSIVE RehydrateLoopDrop(_, _, _)
RehydrateLoopDrop(list, i, is_date_only) ==
    IF i > Len(list) THEN <<>>
    ELSE (IF list[i].kind # "dict" THEN <<>>
          ELSE IF RehydrateValue(list[i].val, is_date_only) = NoneVal THEN <<>>
          ELSE <<[list[i] EXCEPT !.val = RehydrateValue(list[i].val, is_date_only)]>>)
             \o RehydrateLoopDrop(list, i + 1, is_date_only)

\* the loop of lines 572-606 from index i on
RECURSIVE RehydrateLoop(_, _, _)
RehydrateLoop(list, i, is_date_only) ==
    IF i > Len(list) THEN <<>>
    ELSE (IF list[i].kind # "dict" THEN <<list[i]>>
          ELSE <<[list[i] EXCEPT !.val = RehydrateValue(list[i].val, is_date_only)]>>)
             \o RehydrateLoop(list, i + 1, is_date_only)

\* parse_iso_strings_in_forecast_data on an optional list (None, or any
\* value that is not a list, is left alone): the list as it is afterwards
parse_iso_strings_in_forecast_data(forecast_list, is_date_only) ==
    IF IsNone(forecast_list) THEN None
    ELSE Some(RehydrateLoop(Get(forecast_list), 1, is_date_only))

----------------------------------------------------------------------------
(* Sample timestamps                                                       *)

IsoDateText(y, mo, d) ==
    PadDigits(y, 4) \o <<"-">> \o PadDigits(mo, 2) \o <<"-">> \o PadDigits(d, 2)

MaxLen == 2        \* longest provider array explored exhaustively
MaxEntries == 3    \* longest list handed to rehydrate

T_Hour  == IsoDateText(2024, 1, 1) \o <<"T", "0", "5", ":", "0", "0">>
T_Blank == IsoDateText(2024, 1, 1) \o <<" ", "0", "6">>
T_Day   == IsoDateText(2024, 1, 2)
T_Bad   == IsoDateText(2024, 2, 30)
T_Canon == IsoDateText(2024, 1, 3) \o <<"T", "0", "7", ":", "0", "0", ":", "0", "0">>

TimeElems == {Some(T_Hour), Some(T_Day), Some(T_Bad), None}

SeqsUpTo(S, n) == UNION {[1..k -> S] : k \in 0..n}

\* lengths of the value arrays: empty, one short of the longest, the longest
ArrLens == {0, MaxLen - 1, MaxLen}

\* the k-th provider array of length n: distinct values per array and index
ValueArr(k, n) == ListArr([i \in 1..n |-> 100 * k + i])

HourlyOf(times, lens) ==
    HourlySection(ListArr(times), ValueArr(1, lens[1]), ValueArr(2, lens[2]),
                  ValueArr(3, lens[3]), ValueArr(4, lens[4]), ValueArr(5, lens[5]))

DailyOf(times, lens) ==
    DailySection(ListArr(times), ValueArr(6, lens[1]), ValueArr(7, lens[2]),
                 ValueArr(8, lens[3]))

\* hourly arrays of lengths [5,5,5,4,5,5], every timestamp well-formed
ExampleHourly ==
    HourlySection(ListArr([i \in 1..5 |-> Some(IF i % 2 = 0 THEN T_Hour ELSE T_Blank)]),
                  ValueArr(1, 5), ValueArr(2, 5), ValueArr(3, 4), ValueArr(4, 5),
                  ValueArr(5, 5))

\* daily arrays of lengths [3,3,2,3], every date well-formed
ExampleDaily ==
    DailySection(ListArr([i \in 1..3 |-> Some(T_Day)]),
                 ValueArr(6, 3), ValueArr(7, 2), ValueArr(8, 3))

SampleMeta == Some([latitude |-> 1500000, longitude |-> 2250000])

RawPayloads ==
    {NoPayload, EmptyPayload, RawPayload(None, None, SampleMeta),
     RawPayload(Some(EmptyHourly), Some(EmptyDaily), None),
     RawPayload(Some(ExampleHourly), Some(ExampleDaily), SampleMeta),
     RawPayload(Some([ExampleHourly EXCEPT !.weather_code = NullArr]), None, None),
     RawPayload(None, Some([ExampleDaily EXCEPT !.time = NullArr]), None)}
      \cup { RawPayload(Some(HourlyOf(ts, ls)), d, None) :
               ts \in SeqsUpTo(TimeElems, MaxLen), ls \in [1..5 -> ArrLens],
               d \in {None, Some(ExampleDaily)} }
      \cup { RawPayload(h, Some(DailyOf(ts, ls)), None) :
               ts \in SeqsUpTo(TimeElems, MaxLen), ls \in [1..3 -> ArrLens],
               h \in {None, Some(ExampleHourly)} }

----------------------------------------------------------------------------
(* normalize as a function of the raw payload                               *)

InitNormalize ==
    /\ Idle({"session", "cities", "history", "cache", "last", "procs"})
    /\ \E raw \in RawPayloads :
           fn = [op |-> "normalize", raw |-> raw,
                 out |-> Normalized("none", Bundle(<<>>, <<>>, None)),
                 done |-> FALSE]

RunNormalize ==
    /\ fn.op = "normalize" /\ ~fn.done
    /\ fn' = [fn EXCEPT !.out = process_raw_weather_data(fn.raw), !.done = TRUE]
    /\ UNCHANGED <<session, cities, history, cache, last, procs>>

SpecNormalize == InitNormalize /\ [][RunNormalize]_vars

\* the normalizer ran on a payload mapping none of whose arrays is null
NormalizedLists ==
    /\ fn.op = "normalize" /\ fn.done /\ fn.raw.kind = "dict"
    /\ fn.raw # EmptyPayload
    /\ ~IsNone(fn.raw.hourly) => ~HasNull(HourlyArrays(Get(fn.raw.hourly)))
    /\ ~IsNone(fn.raw.daily) => ~HasNull(DailyArrays(Get(fn.raw.daily)))

\* the least of a non-empty set of numbers
Least(S) == CHOOSE m \in S : \A x \in S : m <= x

\* the k-th smallest element of a set of numbers
KthOf(S, k) == CHOOSE i \in S : Cardinality({j \in S : j < i}) = k - 1

ShortestHourly(h) ==
    Least({Len(h.time.items), Len(h.temperature_2m.items),
           Len(h.weather_code.items), Len(h.precipitation_probability.items),
           Len(h.windspeed_10m.items), Len(h.winddirection_10m.items)})

ShortestDaily(d) ==
    Least({Len(d.time.items), Len(d.temperature_2m_max.items),
           Len(d.temperature_2m_min.items), Len(d.weather_code.items)})

\* the indices below the shortest array whose timestamp parses
HourlyKept(h) ==
    {i \in 1..ShortestHourly(h) :
        /\ ~IsNone(h.time.items[i])
        /\ ~IsNone(DateTimeFromIso(Get(h.time.items[i])))}

DailyKept(d) ==
    {i \in 1..ShortestDaily(d) :
        /\ ~IsNone(d.time.items[i])
        /\ ~IsNone(DateFromIso(Get(d.time.items[i])))}

HourlyAsClaimed(h, recs) ==
    /\ Len(recs) = Cardinality(HourlyKept(h))
    /\ \A k \in 1..Len(recs) :
          LET i == KthOf(HourlyKept(h), k)
          IN  /\ DateTimeFromIso(recs[k].time) = DateTimeFromIso(Get(h.time.items[i]))
              /\ recs[k].temperature = h.temperature_2m.items[i]
              /\ recs[k].weather_code = h.weather_code.items[i]
              /\ recs[k].precipitation_probability =
                     h.precipitation_probability.items[i]
              /\ recs[k].windspeed = h.windspeed_10m.items[i]
              /\ recs[k].winddirection = h.winddirection_10m.items[i]
    /\ HourlyKept(h) = 1..ShortestHourly(h) => Len(recs) = ShortestHourly(h)

DailyAsClaimed(d, recs) ==
    /\ Len(recs) = Cardinality(DailyKept(d))
    /\ \A k \in 1..Len(recs) :
          LET i == KthOf(DailyKept(d), k)
          IN  /\ DateFromIso(recs[k].day) = DateFromIso(Get(d.time.items[i]))
              /\ recs[k].temp_max = d.temperature_2m_max.items[i]
              /\ recs[k].temp_min = d.temperature_2m_min.items[i]
              /\ recs[k].weather_code = d.weather_code.items[i]
    /\ DailyKept(d) = 1..ShortestDaily(d) => Len(recs) = ShortestDaily(d)

\* C10: normalize builds the hourly records from exactly the indices below
\* the shortest of the six arrays whose timestamp parses, in index order,
\* every field of a record from the same index; when every timestamp parses
\* there are as many records as the shortest array is long (4 for lengths
\* [5,5,5,4,5,5]); the daily records likewise over the four daily arrays.
TheoremC10 ==
    NormalizedLists =>
        /\ fn.out.status = "ok"
        /\ ~IsNone(fn.raw.hourly) =>
              /\ HourlyAsClaimed(Get(fn.raw.hourly), fn.out.bundle.hourly_processed)
              /\ Get(fn.raw.hourly) = ExampleHourly =>
                     Len(fn.out.bundle.hourly_processed) = 4
        /\ ~IsNone(fn.raw.daily) =>
              DailyAsClaimed(Get(fn.raw.daily), fn.out.bundle.daily_processed)

\* normalize ran on the payload with hourly lengths [5,5,5,4,5,5] and daily
\* lengths [3,3,2,3]
WitnessC10 ==
    /\ NormalizedLists
    /\ fn.raw.hourly = Some(ExampleHourly)
    /\ Len(fn.out.bundle.hourly_processed) = 4
    /\ fn.raw.daily = Some(ExampleDaily)
    /\ Len(fn.out.bundle.daily_processed) = 2

\* normalize ran on a payload whose first timestamp does not parse and whose
\* second does: the one record is built from the second index
WitnessC10Dropped ==
    /\ NormalizedLists
    /\ ~IsNone(fn.raw.hourly)
    /\ Get(fn.raw.hourly).time.items = <<Some(T_Bad), Some(T_Hour)>>
    /\ Len(fn.out.bundle.hourly_processed) = 1
    /\ fn.out.bundle.hourly_processed[1].temperature = 102

----------------------------------------------------------------------------
(* rehydrate as a function of the list                                      *)

EntryShapes ==
    { OtherEntry("null", 0), OtherEntry("num", 0),
      DictEntry(StrVal(T_Canon), 0), DictEntry(StrVal(T_Day), 0),
      DictEntry(StrVal(T_Bad), 0), DictEntry(NoneVal, 0), DictEntry(NumVal, 0),
      DictEntry(DateTimeObj(DateTimeVal(2024, 1, 3, 7, 0, 0)), 0),
      DictEntry(DateObj(DateTimeVal(2024, 1, 3, 0, 0, 0)), 0) }

\* lists of entries, the i-th tagged i in its other keys
ForecastLists ==
    { [i \in 1..Len(es) |-> [es[i] EXCEPT !.rest = i]] :
        es \in SeqsUpTo(EntryShapes, MaxEntries) }

InitRehydrate ==
    /\ Idle({"session", "cities", "history", "cache", "last", "procs"})
    /\ \E list \in Opt(ForecastLists), is_date_only \in BOOLEAN :
           fn = [op |-> "rehydrate", list |-> list, is_date_only |-> is_date_only,
                 out |-> None, done |-> FALSE]

RunRehydrate ==
    /\ fn.op = "rehydrate" /\ ~fn.done
    /\ fn' = [fn EXCEPT
                !.out = parse_iso_strings_in_forecast_data(fn.list, fn.is_date_only),
                !.done = TRUE]
    /\ UNCHANGED <<session, cities, history, cache, last, procs>>

SpecRehydrate == InitRehydrate /\ [][RunRehydrate]_vars

Rehydrated == fn.op = "rehydrate" /\ fn.done /\ ~IsNone(fn.list)

\* the entry is a mapping whose timestamp is a text that does not parse
FailsToParse(e) ==
    e.kind = "dict" /\ e.val.t = "str" /\ IsNone(DateTimeFromIso(e.val.s))

\* C4 as stated: rehydrate keeps the length of the list, and every entry
\* that is not a mapping is set to null, as is the timestamp of every entry
\* whose timestamp text fails to parse.
ClaimC4 ==
    Rehydrated =>
        /\ ~IsNone(fn.out)
        /\ Len(Get(fn.out)) = Len(Get(fn.list))
        /\ \A i \in 1..Len(Get(fn.list)) :
              /\ Get(fn.list)[i].kind # "dict" => Get(fn.out)[i].kind = "null"
              /\ FailsToParse(Get(fn.list)[i]) =>
                    /\ Get(fn.out)[i].kind = "dict"
                    /\ Get(fn.out)[i].val = NoneVal

\* C4 amended: rehydrate keeps the length of the list and the order of its
\* entries; an entry that is not a mapping is left as it is (not set to
\* null), and an entry whose timestamp text fails to parse stays a mapping
\* whose timestamp is null.
TheoremC4 ==
    Rehydrated =>
        /\ ~IsNone(fn.out)
        /\ Len(Get(fn.out)) = Len(Get(fn.list))
        /\ \A i \in 1..Len(Get(fn.list)) :
              /\ Get(fn.out)[i].rest = Get(fn.list)[i].rest
              /\ Get(fn.list)[i].kind # "dict" => Get(fn.out)[i] = Get(fn.list)[i]
              /\ FailsToParse(Get(fn.list)[i]) =>
                    /\ Get(fn.out)[i].kind = "dict"
                    /\ Get(fn.out)[i].val = NoneVal

\* rehydrate ran on a list holding a number, then a mapping whose timestamp
\* text does not parse, then a mapping whose timestamp parses
WitnessC4 ==
    /\ Rehydrated
    /\ Len(Get(fn.list)) = 3
    /\ Get(fn.list)[1].kind = "num"
    /\ FailsToParse(Get(fn.list)[2])
    /\ Get(fn.list)[3] = DictEntry(StrVal(T_Canon), 3)
    /\ Get(fn.out)[1].kind = "num"
    /\ Get(fn.out)[2].val = NoneVal
    /\ Get(fn.out)[3].val.t \in {"date", "datetime"}

----------------------------------------------------------------------------
(* Persistence: City and SearchHistory                                     *)

CityRow(name, admin1, country, latitude, longitude, full_display_name) ==
    [name |-> name, admin1 |-> admin1, country |-> country,
     latitude |-> latitude, longitude |-> longitude,
     full_display_name |-> full_display_name]

NoRow == CityRow(<<>>, <<>>, <<>>, 0, 0, <<>>)

\* City.save: full_display_name is computed from the components
CitySave(row) ==
    [row EXCEPT !.full_display_name =
        IF row.admin1 # <<>>
        THEN row.name \o <<",", " ">> \o row.admin1 \o <<",", " ">> \o row.country
        ELSE row.name \o <<",", " ">> \o row.country]

\* unique_city_name_admin1_country, against every row but pk
NameTaken(rows, row, pk) ==
    \E i \in 1..Len(rows) :
        /\ i # pk
        /\ rows[i].name = row.name
        /\ rows[i].admin1 = row.admin1
        /\ rows[i].country = row.country

\* a City table without the constraint on (latitude, longitude)
NoLatLonConstraint(rows, row, pk) == FALSE

\* unique_city_lat_lon, against every row but pk
LatLonTaken(rows, row, pk) ==
    \E i \in 1..Len(rows) :
        /\ i # pk
        /\ rows[i].latitude = row.latitude
        /\ rows[i].longitude = row.longitude

\* writing row under pk raises IntegrityError
Violates(rows, row, pk) == NameTaken(rows, row, pk) \/ LatLonTaken(rows, row, pk)

\* City.objects.get(latitude=, longitude=): the primary key, 0 for DoesNotExist
Lookup(rows, lat, lon) ==
    IF \E i \in 1..Len(rows) : rows[i].latitude = lat /\ rows[i].longitude = lon
    THEN CHOOSE i \in 1..Len(rows) : rows[i].latitude = lat /\ rows[i].longitude = lon
    ELSE 0

Anonymous == [is_authenticated |-> FALSE, id |-> 0]
User(id)  == [is_authenticated |-> TRUE, id |-> id]

\* a recorder that writes history for every caller
AnyCaller(user) == TRUE

\* hasattr(user, "is_authenticated") and user.is_authenticated
IsAuthenticated(user) == user.is_authenticated

\* a handler that catches only the uniqueness violation
CatchesIntegrityOnly(err) == err = "IntegrityError"

\* except Exception
Catches(err) == TRUE

----------------------------------------------------------------------------
(* History recorder: update_city_and_history, one database statement at a  *)
(* time.  A call is [pc, user, loc, fault, pk, obj, created, retried, err]: *)
(* fault names the statement at which the database fails                    *)
(* (OperationalError); retried says get_or_create lost its insert to a      *)
(* uniqueness constraint and looked the row up again.                       *)

NewCall(user, loc, fault) ==
    [pc |-> "get", user |-> user, loc |-> loc, fault |-> fault, pk |-> 0,
     obj |-> NoRow, created |-> FALSE, retried |-> FALSE, err |-> "none"]

Stepped(cs, hs, p) == [cities |-> cs, history |-> hs, p |-> p]

\* an exception inside the try block: the handler logs it and the call
\* returns, or it leaves the call
Raise(cs, hs, p, err) ==
    Stepped(cs, hs, [p EXCEPT !.err = err,
                              !.pc = IF Catches(err) THEN "done" ELSE "raised"])

\* lines 517-535: the row was found; the fields that differ are assigned
Loaded(cs, p, pk) ==
    LET obj == [cs[pk] EXCEPT !.name = p.loc.name_component,
                              !.admin1 = p.loc.admin1_component,
                              !.country = p.loc.country_component,
                              !.full_display_name = p.loc.display_name]
    IN  [p EXCEPT !.pk = pk, !.obj = obj, !.created = FALSE,
                  !.pc = IF obj # cs[pk] THEN "save" ELSE "history"]

RecordStep(cs, hs, p) ==
    LET lat5 == Round5(p.loc.lat)
        lon5 == Round5(p.loc.lon)
    IN  CASE p.pc = "get" ->
               IF p.fault = "get" THEN Raise(cs, hs, p, "OperationalError")
               ELSE IF Lookup(cs, lat5, lon5) # 0
                    THEN Stepped(cs, hs, Loaded(cs, p, Lookup(cs, lat5, lon5)))
                    ELSE Stepped(cs, hs, [p EXCEPT !.pc = "create"])
          [] p.pc = "create" ->
               LET row == CitySave(CityRow(p.loc.name_component,
                                           p.loc.admin1_component,
                                           p.loc.country_component,
                                           lat5, lon5, p.loc.display_name))
               IN  IF p.fault = "create" THEN Raise(cs, hs, p, "OperationalError")
                   ELSE IF Violates(cs, row, 0)
                        THEN Stepped(cs, hs, [p EXCEPT !.pc = "retry_get",
                                                       !.retried = TRUE])
                        ELSE Stepped(Append(cs, row), hs,
                                     [p EXCEPT !.pk = Len(cs) + 1, !.obj = row,
                                               !.created = TRUE, !.pc = "history"])
          [] p.pc = "retry_get" ->
               IF Lookup(cs, lat5, lon5) # 0
               THEN Stepped(cs, hs, Loaded(cs, p, Lookup(cs, lat5, lon5)))
               ELSE Raise(cs, hs, p, "IntegrityError")
          [] p.pc = "save" ->
               LET row == CitySave(p.obj)
               IN  IF p.fault = "save" THEN Raise(cs, hs, p, "OperationalError")
                   ELSE IF Violates(cs, row, p.pk)
                        THEN Raise(cs, hs, p, "IntegrityError")
                        ELSE Stepped([cs EXCEPT ![p.pk] = row], hs,
                                     [p EXCEPT !.obj = row, !.pc = "history"])
          [] p.pc = "history" ->
               IF ~IsAuthenticated(p.user)
               THEN Stepped(cs, hs, [p EXCEPT !.pc = "done"])
               ELSE IF p.fault = "history"
                    THEN Raise(cs, hs, p, "OperationalError")
                    ELSE Stepped(cs, Append(hs, [user |-> p.user.id, city |-> p.pk]),
                                 [p EXCEPT !.pc = "done"])
          [] OTHER -> Stepped(cs, hs, p)

Finished(p) == p.pc \in {"done", "raised"}

RECURSIVE RecordRun(_, _, _)
RecordRun(cs, hs, p) ==
    IF Finished(p) THEN Stepped(cs, hs, p)
    ELSE RecordRun(RecordStep(cs, hs, p).cities, RecordStep(cs, hs, p).history,
                   RecordStep(cs, hs, p).p)

\* update_city_and_history(user, parsed_location) run alone on the tables
update_city_and_history(cs, hs, user, loc, fault) ==
    RecordRun(cs, hs, NewCall(user, loc, fault))

----------------------------------------------------------------------------
(* record() called again and again on the tables                            *)

MaxHistory == 2     \* SearchHistory rows after which no further call is made

NumText(ip, fp) == ip \o <<".">> \o fp

\* the Location decode returns for a session mapping with numeric lat, lon
LocationOf(display, lat, lon) ==
    Get(parse_session_location_data(
            DictSession(Some(display), Some(lat), Some(lon), None, None, None),
            None).loc)

LocUr      == LocationOf(Ur, NumText(<<"1">>, <<"5">>), NumText(<<"2">>, <<"2", "5">>))
LocUrNear  == LocationOf(Ur \o <<",", " ">> \o Il \o <<",", " ">> \o IT,
                         NumText(<<"1">>, <<"5", "0", "0", "0", "0", "4">>),
                         NumText(<<"2">>, <<"2", "5">>))
LocUrFar   == LocationOf(Ur, NumText(<<"1">>, <<"7">>), NumText(<<"2">>, <<"2", "5">>))
LocOslo    == LocationOf(Oslo \o <<",", " ">> \o IT,
                         NumText(<<"1">>, <<"5", "0", "0", "0", "1">>),
                         NumText(<<"2">>, <<"2", "5">>))

RecordLocations == {LocUr, LocUrNear, LocUrFar, LocOslo}
Users == {Anonymous, User(1), User(2)}
FaultPoints == {"none", "get", "create", "save", "history"}

IdleRecord ==
    [op |-> "none", user |-> Anonymous, loc |-> LocUr, fault |-> "none",
     existed |-> FALSE, before |-> 0, pc |-> "done", err |-> "none", pk |-> 0]

InitRecord ==
    /\ Idle({"session", "cities", "history", "cache", "fn", "procs"})
    /\ last = IdleRecord

\* one call of update_city_and_history, from its first statement to its return
Record ==
    \E user \in Users, loc \in RecordLocations, fault \in FaultPoints :
    \E r \in {update_city_and_history(cities, history, user, loc, fault)} :
        /\ Len(history) < MaxHistory
        /\ fault # "none" => r.p.err = "OperationalError"
        /\ cities' = r.cities
        /\ history' = r.history
        /\ last' = [op |-> "record", user |-> user, loc |-> loc,
                    fault |-> fault,
                    existed |-> Lookup(cities, Round5(loc.lat), Round5(loc.lon)) # 0,
                    before |-> Len(history), pc |-> r.p.pc, err |-> r.p.err,
                    pk |-> r.p.pk]
        /\ UNCHANGED <<session, cache, fn, procs>>

SpecRecord == InitRecord /\ [][Record]_vars

\* the rows of City at the rounded coordinates of loc
RowsAt(loc) ==
    {i \in 1..Len(cities) :
        /\ cities[i].latitude = Round5(loc.lat)
        /\ cities[i].longitude = Round5(loc.lon)}

\* C2: a record() call by an authenticated caller, the database answering
\* every statement, appends exactly one SearchHistory row, which links that
\* user to the City at the location's rounded coordinates.
ClaimC2 ==
    (last.op = "record" /\ last.user.is_authenticated /\ last.fault = "none") =>
        /\ Len(history) = last.before + 1
        /\ history[Len(history)].user = last.user.id
        /\ history[Len(history)].city \in RowsAt(last.loc)

\* C3: after a record() call for coordinates that round to the pair of an
\* earlier call, the database answering every statement, exactly one City
\* row has that pair, and its name, admin1, country and display name are
\* those of the location of this call.
ClaimC3 ==
    (last.op = "record" /\ last.fault = "none" /\ last.existed) =>
        /\ Cardinality(RowsAt(last.loc)) = 1
        /\ \A i \in RowsAt(last.loc) :
              /\ cities[i].name = last.loc.name_component
              /\ cities[i].admin1 = last.loc.admin1_component
              /\ cities[i].country = last.loc.country_component
              /\ cities[i].full_display_name = last.loc.display_name

\* C9: a record() call for an unauthenticated caller creates no
\* SearchHistory row, whatever the location and the rows already stored.
TheoremC9 ==
    (last.op = "record" /\ ~last.user.is_authenticated) =>
        Len(history) = last.before

\* an anonymous call returned after upserting a City, with history rows of
\* earlier callers in the table
WitnessC9 ==
    /\ last.op = "record" /\ ~last.user.is_authenticated
    /\ last.fault = "none" /\ last.pc = "done" /\ last.err = "none"
    /\ last.pk # 0
    /\ Len(history) = 1

----------------------------------------------------------------------------
(* Two record() calls for the same rounded coordinates, interleaved         *)

\* the City table after the calls for locs, one after the other
RECURSIVE TableAfter(_)
TableAfter(locs) ==
    IF locs = <<>> THEN <<>>
    ELSE update_city_and_history(TableAfter(SubSeq(locs, 1, Len(locs) - 1)), <<>>,
                                 Anonymous, locs[Len(locs)], "none").cities

InitRace ==
    /\ Idle({"session", "history", "cache", "last", "fn"})
    /\ cities \in {TableAfter(<<>>), TableAfter(<<LocUrFar>>),
                   TableAfter(<<LocOslo, LocUrFar>>)}
    /\ \E u1 \in {Anonymous, User(1)}, u2 \in {Anonymous, User(2)},
          l1 \in {LocUr, LocUrNear}, l2 \in {LocUr, LocUrNear} :
           procs = <<NewCall(u1, l1, "none"), NewCall(u2, l2, "none")>>

\* call i executes its next database statement
RaceStep(i) ==
    /\ ~Finished(procs[i])
    /\ LET r == RecordStep(cities, history, procs[i])
       IN  /\ cities' = r.cities
           /\ history' = r.history
           /\ procs' = [procs EXCEPT ![i] = r.p]
    /\ UNCHANGED <<session, cache, last, fn>>

NextRace == \E i \in {1, 2} : i <= Len(procs) /\ RaceStep(i)

SpecRace == InitRace /\ [][NextRace]_vars

\* C6: however two record() calls for coordinates with the same rounded
\* pair interleave, no two City rows ever share a rounded pair, and neither
\* call is left by an exception.
TheoremC6 ==
    /\ \A i, j \in 1..Len(cities) :
          (cities[i].latitude = cities[j].latitude
              /\ cities[i].longitude = cities[j].longitude) => i = j
    /\ \A i \in 1..Len(procs) : procs[i].pc # "raised"

\* both calls returned, one of them having lost the insert to the other
WitnessC6 ==
    /\ Len(procs) = 2
    /\ procs[1].pc = "done" /\ procs[2].pc = "done"
    /\ procs[1].created # procs[2].created
    /\ \E i \in {1, 2} : procs[i].retried /\ procs[i].err = "none"
    /\ Cardinality(RowsAt(procs[1].loc)) = 1

----------------------------------------------------------------------------
(* Location session codec: encode                                          *)

\* bool(s) of an optional str
NonEmptyStr(o) == ~IsNone(o) /\ Get(o) # <<>>

\* an encode that stores each coordinate as soon as it has parsed
EncodeEachAlone(city_name_selected, lat_str, lon_str) ==
    LET float_lat == IF NonEmptyStr(lat_str)
                     THEN ParseFloat(Replace(Get(lat_str), ",", ".")) ELSE None
        float_lon == IF NonEmptyStr(lon_str)
                     THEN ParseFloat(Replace(Get(lon_str), ",", ".")) ELSE None
    IN  DictSession(Some(city_name_selected),
                    IF IsNone(float_lat) THEN None ELSE Some(StrFloat(Get(float_lat))),
                    IF IsNone(float_lon) THEN None ELSE Some(StrFloat(Get(float_lon))),
                    None, None, None)

\* prepare_location_data_for_session
prepare_location_data_for_session(city_name_selected, lat_str, lon_str) ==
    LET float_lat == IF NonEmptyStr(lat_str) /\ NonEmptyStr(lon_str)
                     THEN ParseFloat(Replace(Get(lat_str), ",", ".")) ELSE None
        float_lon == IF NonEmptyStr(lat_str) /\ NonEmptyStr(lon_str)
                     THEN ParseFloat(Replace(Get(lon_str), ",", ".")) ELSE None
    IN  IF IsNone(float_lat) \/ IsNone(float_lon)
        THEN DictSession(Some(city_name_selected), None, None, None, None, None)
        ELSE DictSession(Some(city_name_selected), Some(StrFloat(Get(float_lat))),
                         Some(StrFloat(Get(float_lon))), None, None, None)

----------------------------------------------------------------------------
(* encode as a function of the posted name, lat and lon                     *)

EncodeNames == { Ur, <<>> }
EncodeCoordTexts ==
    Opt({ <<>>, <<"x">>, NumText(<<"1">>, <<"5">>), <<"1", ",", "5">>,
          <<" ", "-", "2", " ">>, <<"1", ",", "0", ".", "5">>,
          <<"1", ".", "5", "e", "-", "0", "5">> })

InitEncode ==
    /\ Idle({"session", "cities", "history", "cache", "last", "procs"})
    /\ \E name \in EncodeNames, lat_str \in EncodeCoordTexts,
          lon_str \in EncodeCoordTexts :
           fn = [op |-> "encode", name |-> name, lat_str |-> lat_str,
                 lon_str |-> lon_str, out |-> NoSession, done |-> FALSE]

RunEncode ==
    /\ fn.op = "encode" /\ ~fn.done
    /\ fn' = [fn EXCEPT !.out = prepare_location_data_for_session(
                                    fn.name, fn.lat_str, fn.lon_str),
                        !.done = TRUE]
    /\ UNCHANGED <<session, cities, history, cache, last, procs>>

SpecEncode == InitEncode /\ [][RunEncode]_vars

\* the number a posted coordinate text stands for, a comma read as the
\* decimal point; None when the text is missing, empty or no numeral
PostedNumber(o) ==
    IF IsNone(o) \/ Get(o) = <<>> THEN None
    ELSE ParseFloat(Replace(Get(o), ",", "."))

\* C11: encode stores lat and lon as an atomic pair: both are texts that
\* parse as the posted numbers (a comma read as the decimal point) when both
\* posted texts are numerals, and both are null when either posted text is
\* missing or is no numeral.
TheoremC11 ==
    (fn.op = "encode" /\ fn.done) =>
        /\ fn.out.kind = "dict" /\ fn.out.display = Some(fn.name)
        /\ IsNone(fn.out.lat) <=> IsNone(fn.out.lon)
        /\ IF ~IsNone(PostedNumber(fn.lat_str)) /\ ~IsNone(PostedNumber(fn.lon_str))
           THEN /\ ~IsNone(fn.out.lat) /\ ~IsNone(fn.out.lon)
                /\ ParseFloat(Get(fn.out.lat)) = PostedNumber(fn.lat_str)
                /\ ParseFloat(Get(fn.out.lon)) = PostedNumber(fn.lon_str)
           ELSE IsNone(fn.out.lat) /\ IsNone(fn.out.lon)

\* lat was posted with a decimal comma and lon was no numeral: both null
WitnessC11 ==
    /\ fn.op = "encode" /\ fn.done
    /\ fn.lat_str = Some(<<"1", ",", "5">>) /\ fn.lon_str = Some(<<"x">>)
    /\ IsNone(fn.out.lat) /\ IsNone(fn.out.lon)

\* both were posted with a decimal comma and both were stored
WitnessC11Comma ==
    /\ fn.op = "encode" /\ fn.done
    /\ fn.lat_str = Some(<<"1", ",", "5">>) /\ fn.lon_str = Some(<<"1", ",", "5">>)
    /\ fn.out.lat = Some(NumText(<<"1">>, <<"5">>))
    /\ fn.out.lon = Some(NumText(<<"1">>, <<"5">>))

----------------------------------------------------------------------------
(* encode then decode                                                       *)

CodecNames == { Ur, <<>>, Ur \o <<",", " ">> \o Il \o <<",", " ">> \o IT,
                <<"1", ",", "2">> }
\* coordinates in Unit-ths of a degree: zero, below 0.0001, negative, with
\* six fractional digits
CodecCoords ==
    { 0, 15, 0 - 99, 100, 1500000, 0 - 2250000, 1000014, 59913900 }

InitCodec ==
    /\ Idle({"session", "cities", "history", "cache", "last", "procs"})
    /\ \E name \in CodecNames, lat \in CodecCoords, lon \in CodecCoords :
           fn = [op |-> "codec", name |-> name, lat |-> lat, lon |-> lon,
                 enc |-> NoSession, out |-> Decoded(None, None), pc |-> "encode"]

\* encode(name, str(lat), str(lon))
CodecEncode ==
    /\ fn.op = "codec" /\ fn.pc = "encode"
    /\ fn' = [fn EXCEPT !.enc = prepare_location_data_for_session(
                                    fn.name, Some(StrFloat(fn.lat)),
                                    Some(StrFloat(fn.lon))),
                        !.pc = "decode"]
    /\ UNCHANGED <<session, cities, history, cache, last, procs>>

\* decode of what encode returned
CodecDecode ==
    /\ fn.op = "codec" /\ fn.pc = "decode"
    /\ \E api \in GeoApiAnswers :
           fn' = [fn EXCEPT !.out = parse_session_location_data(fn.enc, api),
                            !.pc = "done"]
    /\ UNCHANGED <<session, cities, history, cache, last, procs>>

NextCodec == CodecEncode \/ CodecDecode

SpecCodec == InitCodec /\ [][NextCodec]_vars

\* C12: decode(encode(name, str(lat), str(lon))) returns a Location whose
\* lat and lon are the original numbers, and the geocoding client is not
\* called.
TheoremC12 ==
    (fn.op = "codec" /\ fn.pc = "done") =>
        /\ ~IsNone(fn.out.loc)
        /\ Get(fn.out.loc).lat = fn.lat
        /\ Get(fn.out.loc).lon = fn.lon
        /\ IsNone(fn.out.geo)

\* a latitude that str() writes in exponent notation and a negative
\* longitude came back unchanged
WitnessC12 ==
    /\ fn.op = "codec" /\ fn.pc = "done"
    /\ fn.lat = 15 /\ fn.lon = 0 - 2250000
    /\ fn.enc.lat = Some(<<"1", ".", "5", "e", "-", "0", "5">>)
    /\ ~IsNone(fn.out.loc)
    /\ Get(fn.out.loc).lat = 15 /\ Get(fn.out.loc).lon = 0 - 2250000

----------------------------------------------------------------------------
(* The views, one request at a time on one session                          *)

\* what the form posts
PostedCities == { Ur, <<" ">> \o Ur \o <<",", " ">> \o IT }
PostedCoords ==
    { <<None, None>>,
      <<Some(NumText(<<"1">>, <<"5">>)), None>>,
      <<Some(NumText(<<"1">>, <<"5">>)), Some(NumText(<<"2">>, <<"2", "5">>))>>,
      <<Some(<<"1", ",", "5", "0", "0", "0", "0", "4">>),
        Some(NumText(<<"2">>, <<"2", "5">>))>>,
      <<Some(NumText(<<"1">>, <<"7">>)), Some(NumText(<<"2">>, <<"2", "5">>))>>,
      <<Some(<<"x">>), Some(NumText(<<"2">>, <<"2", "5">>))>> }
Posts ==
    { <<city, ll[1], ll[2]>> : city \in PostedCities, ll \in PostedCoords }
        \cup { <<<<" ">>, None, None>> }

\* what fetch_weather_api_data returns: None, the payload of a 2xx answer
GoodPayload ==
    RawPayload(Some(HourlySection(ListArr(<<Some(T_Hour), Some(T_Bad), Some(T_Blank)>>),
                                  ValueArr(1, 3), ValueArr(2, 3), ValueArr(3, 2),
                                  ValueArr(4, 3), ValueArr(5, 3))),
               Some(DailySection(ListArr(<<Some(T_Day)>>), ValueArr(6, 1),
                                 ValueArr(7, 1), ValueArr(8, 1))),
               SampleMeta)
NullArrayPayload ==
    RawPayload(Some([ExampleHourly EXCEPT !.time = NullArr]), None, SampleMeta)
FetchAnswers == {NoPayload, EmptyPayload, GoodPayload, NullArrayPayload}

\* fetch_weather_api_data(lat, lon): the forecast service answers for the
\* coordinates of the query, and its payload names them
fetch_weather_api_data(lat, lon, answer) ==
    IF answer.kind = "dict" /\ ~IsNone(answer.meta)
    THEN [answer EXCEPT !.meta = Some([latitude |-> lat, longitude |-> lon])]
    ELSE answer

Response(op, stage, redirect, p, wrote, shown) ==
    [op |-> op, stage |-> stage, redirect |-> redirect, pc |-> p.pc,
     err |-> p.err, fault |-> p.fault, wrote |-> wrote, shown |-> shown]

NotCalled == NewCall(Anonymous, LocUr, "none")

Init ==
    /\ Idle({"cities", "history", "cache", "fn", "procs"})
    /\ session = IdleSession
    /\ last = Response("none", "none", "none", NotCalled, FALSE, None)

\* POST city/: _handle_city_form_submission
SubmitCity ==
    \E post \in Posts :
        LET city_name_selected == Strip(post[1])
            lat_str == post[2]
            lon_str == post[3]
        IN  /\ IF city_name_selected = <<>>
               THEN /\ UNCHANGED session
                    /\ last' = Response("submit", "none", "city", NotCalled,
                                        FALSE, None)
               ELSE /\ session' =
                          [session EXCEPT !.location =
                              prepare_location_data_for_session(
                                  city_name_selected, lat_str, lon_str)]
                    /\ last' = Response("submit", "none", "get_weather", NotCalled,
                                        session' # session, None)
            /\ UNCHANGED <<cities, history, cache, fn, procs>>

\* the mapping get_weather_view stores under "location"
StoredLocation(parsed_location) ==
    DictSession(Some(parsed_location.display_name),
                Some(StrFloat(parsed_location.lat)),
                Some(StrFloat(parsed_location.lon)),
                Some(parsed_location.name_component),
                Some(parsed_location.admin1_component),
                Some(parsed_location.country_component))

\* get_weather_view returns a redirect before it writes anything
Stop(stage, redirect) ==
    /\ last' = Response("get_weather", stage, redirect, NotCalled, FALSE, None)
    /\ UNCHANGED <<session, cities, history>>

\* lines 137-150: the session is written, the search recorded, the results
\* page redirected to.  An exception that leaves the view is a 500 answer,
\* for which the session middleware does not save the session.
StoreAndRecord(parsed_location, bundle, r) ==
    /\ cities' = r.cities
    /\ history' = r.history
    /\ session' = IF r.p.pc = "raised" THEN session
                  ELSE [location |-> StoredLocation(parsed_location),
                        weather_data |-> Some(bundle)]
    /\ last' = Response("get_weather", "record",
                        IF r.p.pc = "raised" THEN "error500" ELSE "weather_results",
                        r.p,
                        <<session', cities', history'>> # <<session, cities, history>>,
                        None)

\* GET get-weather/: get_weather_view.  api and fetched are the answers of
\* the geocoding and forecast services, fault the failing database statement
\* (answers and faults that are never consulted are not varied)
GetWeather ==
    /\ Len(history) < MaxHistory
    /\ UNCHANGED <<cache, fn, procs>>
    /\ \E api \in GeoApiAnswers :
       \E decoded \in {parse_session_location_data(session.location, api)} :
          /\ IsNone(decoded.geo) => api = None
          /\ IF IsNone(decoded.loc) THEN Stop("decode", "city_search")
             ELSE \E answer \in FetchAnswers :
                  \E fetched \in {fetch_weather_api_data(
                                      Get(decoded.loc).lat, Get(decoded.loc).lon,
                                      answer)} :
                  \E processed \in {process_raw_weather_data(fetched)} :
                     IF fetched.kind = "none" \/ fetched = EmptyPayload
                     THEN Stop("fetch", "city_search")
                     ELSE IF processed.status = "none"
                          THEN Stop("normalize", "city_search")
                     ELSE IF processed.status = "raise"
                          THEN Stop("normalize", "error500")
                     ELSE \E user \in {Anonymous, User(1)}, fault \in FaultPoints :
                          \E r \in {update_city_and_history(
                                        cities, history, user, Get(decoded.loc),
                                        fault)} :
                             /\ fault # "none" => r.p.err = "OperationalError"
                             /\ StoreAndRecord(Get(decoded.loc), processed.bundle, r)

HourlyEntries(recs) == [i \in 1..Len(recs) |-> DictEntry(StrVal(recs[i].time), i)]
DailyEntries(recs)  == [i \in 1..Len(recs) |-> DictEntry(StrVal(recs[i].day), i)]

\* GET /: weather_results_view, on a deep copy of the session's bundle
WeatherResults ==
    /\ last' = Response("results", "none", "none", NotCalled, FALSE,
          IF IsNone(session.weather_data) THEN None
          ELSE Some([location |-> session.location,
                     hourly |-> parse_iso_strings_in_forecast_data(
                         Some(HourlyEntries(Get(session.weather_data).hourly_processed)),
                         FALSE),
                     daily |-> parse_iso_strings_in_forecast_data(
                         Some(DailyEntries(Get(session.weather_data).daily_processed)),
                         TRUE)]))
    /\ UNCHANGED <<session, cities, history, cache, fn, procs>>

Next == SubmitCity \/ GetWeather \/ WeatherResults

Spec == Init /\ [][Next]_vars

\* C5: when decode, the forecast fetch or normalize fails in
\* get_weather_view, the answer is a redirect to the search page, and the
\* session and the tables are as they were.
ClaimC5 ==
    (last.op = "get_weather" /\ last.stage \in {"decode", "fetch", "normalize"}) =>
        /\ last.redirect = "city_search"
        /\ ~last.wrote

\* C8: once get_weather_view calls record(), record() returns normally and
\* the view redirects to the results page, whatever the database raises at
\* the City upsert or the SearchHistory insert.
TheoremC8 ==
    (last.op = "get_weather" /\ last.stage = "record") =>
        /\ last.pc = "done"
        /\ last.redirect = "weather_results"

\* the City insert hit the uniqueness constraint on the names, and the view
\* redirected to the results page
WitnessC8 ==
    /\ last.op = "get_weather" /\ last.stage = "record"
    /\ last.err = "IntegrityError"
    /\ last.redirect = "weather_results"

\* the database failed at the SearchHistory insert, and the view redirected
\* to the results page
WitnessC8Fault ==
    /\ last.op = "get_weather" /\ last.stage = "record"
    /\ last.fault = "history" /\ last.err = "OperationalError"
    /\ last.redirect = "weather_results"

\* the session holds a forecast bundle
HoldsForecast == ~IsNone(session.weather_data)

\* the coordinates the forecast service computed the held bundle for
ForecastCoords ==
    <<Get(Get(session.weather_data).meta).latitude,
      Get(Get(session.weather_data).meta).longitude>>

\* the coordinates of the location the session holds, None where it has none
SessionCoords ==
    <<IF IsNone(session.location.lat) THEN None
      ELSE ParseFloat(Get(session.location.lat)),
      IF IsNone(session.location.lon) THEN None
      ELSE ParseFloat(Get(session.location.lon))>>

\* the location the session holds has both coordinates
HasCoords == ~IsNone(SessionCoords[1]) /\ ~IsNone(SessionCoords[2])

\* C18: whenever the session holds a forecast bundle and a location with
\* coordinates, the bundle was fetched for those coordinates.
ClaimC18 ==
    (HoldsForecast /\ HasCoords) =>
        SessionCoords = <<Some(ForecastCoords[1]), Some(ForecastCoords[2])>>

\* the results page showed a location with coordinates beside a forecast
\* fetched for other coordinates
ShownMismatch ==
    /\ last.op = "results" /\ ~IsNone(last.shown)
    /\ HoldsForecast /\ HasCoords
    /\ SessionCoords # <<Some(ForecastCoords[1]), Some(ForecastCoords[2])>>

\* what does hold: get_weather_view leaves the session with a bundle fetched
\* for the location it stores beside it
StoredTogether ==
    (last.op = "get_weather" /\ last.stage = "record" /\ last.pc = "done") =>
        /\ HoldsForecast
        /\ SessionCoords = <<Some(ForecastCoords[1]), Some(ForecastCoords[2])>>

----------------------------------------------------------------------------
(* Autocomplete and its cache                                               *)

MIN_AUTOCOMPLETE_QUERY_LENGTH == 2

KeyPrefix ==
    <<"a", "u", "t", "o", "c", "o", "m", "p", "l", "e", "t", "e", "_">>

\* a key built from the query as typed
RawCacheKey(query) == KeyPrefix \o query

\* f"autocomplete_{query.lower()}"
CacheKey(query) == KeyPrefix \o Lower(query)

\* cache.get(key): None when no live entry has the key
CacheGet(c, key) ==
    IF \E e \in c : e[1] = key THEN Some((CHOOSE e \in c : e[1] = key)[2])
    ELSE None

\* cache.set(key, value, timeout)
CacheSet(c, key, value) == {e \in c : e[1] # key} \cup {<<key, value>>}

\* fetch_geocoding_data(query): the candidates the geocoding API answers,
\* the empty list when the call fails
fetch_geocoding_data(api) == IF IsNone(api) THEN <<>> ELSE Get(api)

Queries ==
    { <<"p", "a">>, <<"P", "A">>, <<" ", "P", "a", " ">>, <<"p">>, <<" ", "p">>,
      <<"l", "o">>, <<"L", "o">> }

CandidateAnswers == { None, Some(<<>>), Some(<<"c1">>), Some(<<"c1", "c2">>) }

Served(op, query, key, had, results, upstream) ==
    [op |-> op, query |-> query, key |-> key, had |-> had, results |-> results,
     upstream |-> upstream]

InitCache ==
    /\ Idle({"session", "cities", "history", "cache", "fn", "procs"})
    /\ last = Served("none", <<>>, <<>>, None, None, 0)

\* GET city/ with HX-Request: _handle_autocomplete_request
Autocomplete ==
    \E raw \in Queries, api \in CandidateAnswers :
    \E query \in {Strip(raw)} :
    \E cached_results \in {CacheGet(cache, CacheKey(query))} :
        /\ IF Len(query) < MIN_AUTOCOMPLETE_QUERY_LENGTH
           THEN /\ api = None
                /\ UNCHANGED cache
                /\ last' = Served("autocomplete", query, <<>>, None, None, 0)
           ELSE IF ~IsNone(cached_results)
           THEN /\ api = None
                /\ UNCHANGED cache
                /\ last' = Served("autocomplete", query, CacheKey(query),
                                  cached_results, cached_results, 0)
           ELSE /\ cache' = CacheSet(cache, CacheKey(query), fetch_geocoding_data(api))
                /\ last' = Served("autocomplete", query, CacheKey(query), None,
                                  Some(fetch_geocoding_data(api)), 1)
        /\ UNCHANGED <<session, cities, history, fn, procs>>

\* AUTOCOMPLETE_CACHE_TIMEOUT seconds after it was set, an entry is gone
Expire ==
    \E e \in cache :
        /\ cache' = cache \ {e}
        /\ last' = Served("expire", <<>>, e[1], Some(e[2]), None, 0)
        /\ UNCHANGED <<session, cities, history, fn, procs>>

NextCache == Autocomplete \/ Expire

SpecCache == InitCache /\ [][NextCache]_vars

\* the query without regard to letter case, written out for the sample
\* alphabet
Folded(query) ==
    [i \in 1..Len(query) |->
        CASE query[i] \in {"p", "P"} -> "p"
          [] query[i] \in {"a", "A"} -> "a"
          [] query[i] \in {"l", "L"} -> "l"
          [] query[i] \in {"o", "O"} -> "o"
          [] OTHER -> query[i]]

\* C7: an autocomplete request whose query has at least 2 characters works
\* on the entry keyed by the lowercased query; if that entry is live its list
\* is returned and no upstream call is made, otherwise exactly one upstream
\* call is made and its result is stored under that key.
TheoremC7 ==
    (last.op = "autocomplete" /\ Len(last.query) >= 2) =>
        /\ last.key = KeyPrefix \o Folded(last.query)
        /\ ~IsNone(last.had) =>
              /\ last.results = last.had
              /\ last.upstream = 0
              /\ CacheGet(cache, last.key) = last.had
        /\ IsNone(last.had) =>
              /\ last.upstream = 1
              /\ ~IsNone(last.results)
              /\ CacheGet(cache, last.key) = last.results
        /\ \A e1, e2 \in cache : e1[1] = e2[1] => e1 = e2

\* the query "PA" was answered from the live entry "autocomplete_pa"
WitnessC7 ==
    /\ last.op = "autocomplete" /\ last.query = <<"P", "A">>
    /\ last.key = KeyPrefix \o <<"p", "a">>
    /\ last.had = Some(<<"c1", "c2">>)
    /\ last.results = Some(<<"c1", "c2">>)
    /\ last.upstream = 0

\* C17: normalize returns not-found exactly when the raw payload is absent
\* or the empty mapping; on every other payload mapping it returns a bundle
\* with hourly and daily sequences.
ClaimC17 ==
    (fn.op = "normalize" /\ fn.done) =>
        /\ fn.out.status = "none" <=> (fn.raw.kind = "none" \/ fn.raw = EmptyPayload)
        /\ (fn.raw.kind = "dict" /\ fn.raw # EmptyPayload) => fn.out.status = "ok"

----------------------------------------------------------------------------
(* normalize, then rehydrate on its output                                  *)

InitPipeline ==
    /\ Idle({"session", "cities", "history", "cache", "last", "procs"})
    /\ \E raw \in RawPayloads :
           fn = [op |-> "pipeline", raw |-> raw,
                 out |-> Normalized("none", Bundle(<<>>, <<>>, None)),
                 hourly |-> None, daily |-> None, pc |-> "normalize"]

\* process_raw_weather_data on the raw payload
PipelineNormalize ==
    /\ fn.op = "pipeline" /\ fn.pc = "normalize"
    /\ \E processed \in {process_raw_weather_data(fn.raw)} :
           fn' = [fn EXCEPT !.out = processed,
                            !.pc = IF processed.status = "ok" THEN "rehydrate"
                                   ELSE "done"]
    /\ UNCHANGED <<session, cities, history, cache, last, procs>>

\* the two calls of weather_results_view on the bundle
PipelineRehydrate ==
    /\ fn.op = "pipeline" /\ fn.pc = "rehydrate"
    /\ fn' = [fn EXCEPT
                !.hourly = parse_iso_strings_in_forecast_data(
                               Some(HourlyEntries(fn.out.bundle.hourly_processed)),
                               FALSE),
                !.daily = parse_iso_strings_in_forecast_data(
                              Some(DailyEntries(fn.out.bundle.daily_processed)),
                              TRUE),
                !.pc = "done"]
    /\ UNCHANGED <<session, cities, history, cache, last, procs>>

NextPipeline == PipelineNormalize \/ PipelineRehydrate

SpecPipeline == InitPipeline /\ [][NextPipeline]_vars

\* both steps ran
Piped == fn.op = "pipeline" /\ fn.pc = "done" /\ fn.out.status = "ok"

\* the index of the raw arrays a record was built from, read off its
\* temperature (the sample arrays hold 100 * k + index)
SourceIndex(value) == value % 100

\* C15: after rehydrate on normalize's output, every hourly record holds
\* under "time" the datetime that the raw timestamp it was built from parses
\* to, and every daily record holds under "day" the date its raw timestamp
\* parses to; none holds null, and none is lost.
TheoremC15 ==
    Piped =>
        /\ ~IsNone(fn.hourly) /\ ~IsNone(fn.daily)
        /\ Len(Get(fn.hourly)) = Len(fn.out.bundle.hourly_processed)
        /\ Len(Get(fn.daily)) = Len(fn.out.bundle.daily_processed)
        /\ \A j \in 1..Len(Get(fn.hourly)) :
              LET raw_time == Get(fn.raw.hourly).time.items[
                                  SourceIndex(fn.out.bundle.hourly_processed[j].temperature)]
              IN  /\ Get(fn.hourly)[j].kind = "dict"
                  /\ Get(fn.hourly)[j].rest = j
                  /\ ~IsNone(raw_time)
                  /\ Get(fn.hourly)[j].val.t = "datetime"
                  /\ Some(Get(fn.hourly)[j].val.v) = DateTimeFromIso(Get(raw_time))
        /\ \A j \in 1..Len(Get(fn.daily)) :
              LET raw_day == Get(fn.raw.daily).time.items[
                                 SourceIndex(fn.out.bundle.daily_processed[j].temp_max)]
              IN  /\ Get(fn.daily)[j].kind = "dict"
                  /\ Get(fn.daily)[j].rest = j
                  /\ ~IsNone(raw_day)
                  /\ Get(fn.daily)[j].val.t = "date"
                  /\ Some(Get(fn.daily)[j].val.v) = DateFromIso(Get(raw_day))

\* of the raw hourly timestamps <<ill-formed, 2024-01-01T05:00>> the second
\* survived and came back as that datetime; the three daily dates came back
\* as dates
WitnessC15 ==
    /\ Piped
    /\ ~IsNone(fn.raw.hourly) /\ ~IsNone(fn.raw.daily)
    /\ Get(fn.raw.hourly).time.items = <<Some(T_Bad), Some(T_Hour)>>
    /\ Len(Get(fn.hourly)) = 1
    /\ Get(fn.hourly)[1].val = DateTimeObj(DateTimeVal(2024, 1, 1, 5, 0, 0))
    /\ Len(Get(fn.daily)) = 2
    /\ Get(fn.daily)[1].val = DateObj(DateTimeVal(2024, 1, 2, 0, 0, 0))

====
